---- MODULE Spec2Model ----
(***************************************************************************)
(* Model of the nasweb repository.                                         *)
(*                                                                         *)
(*   start_server_venv.py  VenvServerManager: the process supervisor       *)
(*                         (specification Spec)                            *)
(*   system_info.py        the metrics collectors (specifications          *)
(*                         SpecStorage, SpecTemp, SpecNet, SpecCollect)    *)
(***************************************************************************)
EXTENDS Integers, Sequences, FiniteSets, TLC

VARIABLES
    \* ---- supervisor (start_server_venv.py) ----
    pc,          \* position of run() in its own code
    stack,       \* active cleanup() invocations, innermost last
    handle,      \* self.api_process / self.http_process: "none" or "set"
    child,       \* OS state of each child: none, running, exited, reaped
    pending,     \* how run() leaves its try block: return, exit0, exit1
    exitCode,    \* exit code of the supervisor process, -1 while it runs
    signals,     \* SIGINT/SIGTERM deliveries so far
    hist,        \* observations of the run (counters and flags)
    \* ---- collectors (system_info.py) ----
    fpc,         \* position of the collector call being evaluated
    inp,         \* what the OS queries of the call have returned so far
    out          \* the value the call returned

supVars == <<pc, stack, handle, child, pending, exitCode, signals, hist>>

fnVars == <<fpc, inp, out>>

vars == <<pc, stack, handle, child, pending, exitCode, signals, hist,
          fpc, inp, out>>

\* Largest number of SIGINT/SIGTERM deliveries in one run.
MaxSignals == 2

Children == {"api", "http"}

ChildOrder == <<"api", "http">>

\* ---------------------------------------------------------------------
\* subprocess.Popen as the supervisor uses it
\* ---------------------------------------------------------------------

\* Popen.poll(): a child that has exited is reaped and its return code kept.
PollChild(st) == IF st = "exited" THEN "reaped" ELSE st

\* poll() is not None
PollIsDead(st) == PollChild(st) = "reaped"

\* Popen.send_signal() polls first and skips a child known to be dead.
SignalIsSent(st) == PollChild(st) = "running"

\* ---------------------------------------------------------------------
\* run(): exits of the try block
\* ---------------------------------------------------------------------

\* Exit code of the process for each way of leaving run().
ExitCodeOf(p) == IF p = "exit1" THEN 1 ELSE 0

InitHist ==
    [ sigterms     |-> [c \in Children |-> 0],
      termCalls    |-> [c \in Children |-> 0],
      termRefused  |-> [c \in Children |-> 0],
      killCalls    |-> [c \in Children |-> 0],
      timeouts     |-> [c \in Children |-> 0],
      spawns       |-> [c \in Children |-> 0],
      prepDone     |-> {},
      prepFailed   |-> "none",
      health       |-> "none",
      deadAtHealth |-> {},
      monitorEntered |-> FALSE,
      observedDead |-> "none",
      cleanups     |-> 0,
      cleanupsDone |-> 0,
      spawnFailed  |-> "none" ]

SupInit ==
    /\ pc = "install_handlers"
    /\ stack = <<>>
    /\ handle = [c \in Children |-> "none"]
    /\ child = [c \in Children |-> "none"]
    /\ pending = "return"
    /\ exitCode = -1
    /\ signals = 0
    /\ hist = InitHist

\* No collector call is in progress in the supervisor's process.
FnIdle ==
    /\ fpc = "idle"
    /\ inp = <<>>
    /\ out = <<>>

Init == SupInit /\ FnIdle

NewFrame(caller) == [caller |-> caller, who |-> 1, cpc |-> "check"]

\* Positions of run() that lie inside its try block (lines 221-245).
InTry == pc \notin {"install_handlers", "finally", "exited"}

\* An exception (SystemExit included) reaches run(): inside the try block the
\* finally clause runs cleanup() and the exit is kept pending; raised while
\* the finally clause itself runs, it leaves run() and ends the process.
\* p is how run() is left, h the observations so far.
Unwind(p, h) ==
    IF InTry
    THEN /\ pc' = "finally"
         /\ pending' = p
         /\ stack' = <<NewFrame("finally")>>
         /\ hist' = [h EXCEPT !.cleanups = @ + 1]
         /\ exitCode' = exitCode
    ELSE /\ pc' = "exited"
         /\ pending' = p
         /\ stack' = <<>>
         /\ hist' = h
         /\ exitCode' = ExitCodeOf(p)

Running == stack = <<>>

\* run(), lines 216-219: signal.signal(SIGINT/SIGTERM, self.signal_handler)
InstallHandlers ==
    /\ Running /\ pc = "install_handlers"
    /\ pc' = "setup_logging"
    /\ UNCHANGED <<stack, handle, child, pending, exitCode, signals, hist>>
    /\ UNCHANGED fnVars

\* setup_logging(): mkdir(exist_ok=True) succeeds or raises OSError, which
\* run() catches with "except Exception".
SetupLogging ==
    /\ Running /\ pc = "setup_logging"
    /\ \E ok \in BOOLEAN :
         IF ok
         THEN /\ pc' = "create_venv"
              /\ hist' = [hist EXCEPT !.prepDone = @ \cup {"logs"}]
              /\ UNCHANGED <<stack, pending, exitCode>>
         ELSE Unwind("return", [hist EXCEPT !.prepFailed = "logs"])
    /\ UNCHANGED <<handle, child, signals>>
    /\ UNCHANGED fnVars

\* create_virtual_environment(), lines 42-51
CreateVenv ==
    /\ Running /\ pc = "create_venv"
    /\ \E exists \in BOOLEAN, created \in BOOLEAN :
         IF exists \/ created
         THEN /\ pc' = "venv_python"
              /\ UNCHANGED <<stack, pending, exitCode, hist>>
         ELSE Unwind("exit1", [hist EXCEPT !.prepFailed = "venv_create"])
    /\ UNCHANGED <<handle, child, signals>>
    /\ UNCHANGED fnVars

\* create_virtual_environment(), lines 54-63
VenvPython ==
    /\ Running /\ pc = "venv_python"
    /\ \E exists \in BOOLEAN :
         IF exists
         THEN /\ pc' = "probe_deps"
              /\ hist' = [hist EXCEPT !.prepDone = @ \cup {"venv"}]
              /\ UNCHANGED <<stack, pending, exitCode>>
         ELSE Unwind("exit1", [hist EXCEPT !.prepFailed = "venv_python"])
    /\ UNCHANGED <<handle, child, signals>>
    /\ UNCHANGED fnVars

\* install_dependencies(), lines 70-80: the import probe
ProbeDeps ==
    /\ Running /\ pc = "probe_deps"
    /\ \E probe \in {"installed", "missing", "raises"} :
         IF probe = "installed"
         THEN /\ pc' = "check_files"
              /\ hist' = [hist EXCEPT !.prepDone = @ \cup {"deps"}]
         ELSE /\ pc' = "pip_install"
              /\ hist' = hist
    /\ UNCHANGED <<stack, handle, child, pending, exitCode, signals>>
    /\ UNCHANGED fnVars

\* install_dependencies(), lines 84-99: pip install; only CalledProcessError
\* is handled there, any other exception propagates to run().
PipInstall ==
    /\ Running /\ pc = "pip_install"
    /\ \E pip \in {"ok", "CalledProcessError", "OSError"} :
         CASE pip = "ok" ->
                /\ pc' = "check_files"
                /\ hist' = [hist EXCEPT !.prepDone = @ \cup {"deps"}]
                /\ UNCHANGED <<stack, pending, exitCode>>
           [] pip = "CalledProcessError" ->
                Unwind("exit1", [hist EXCEPT !.prepFailed = "pip_failed"])
           [] pip = "OSError" ->
                Unwind("return", [hist EXCEPT !.prepFailed = "pip_not_run"])
    /\ UNCHANGED <<handle, child, signals>>
    /\ UNCHANGED fnVars

RequiredFiles == {"system_info.py", "index.html"}

\* check_dependencies(), lines 106-110
CheckDependencies ==
    /\ Running /\ pc = "check_files"
    /\ \E present \in SUBSET RequiredFiles :
         IF present = RequiredFiles
         THEN /\ pc' = "start_api"
              /\ hist' = [hist EXCEPT !.prepDone = @ \cup {"files"}]
              /\ UNCHANGED <<stack, pending, exitCode>>
         ELSE Unwind("exit1", [hist EXCEPT !.prepFailed = "required_file"])
    /\ UNCHANGED <<handle, child, signals>>
    /\ UNCHANGED fnVars

StartPc(c) == IF c = "api" THEN "start_api" ELSE "start_http"

StorePc(c) == IF c = "api" THEN "store_api" ELSE "store_http"

\* run(), lines 229-233: what follows each spawn
AfterStore(c) == IF c = "api" THEN "start_http" ELSE "health_api"

\* start_api_server / start_http_server: open the log file and Popen(...).
\* The child exists from here on; the handle is stored by the next step.
\* open() or Popen() may raise, which run() catches.
StartServer(c) ==
    /\ Running /\ pc = StartPc(c)
    /\ \E ok \in BOOLEAN :
         IF ok
         THEN /\ pc' = StorePc(c)
              /\ child' = [child EXCEPT ![c] = "running"]
              /\ hist' = [hist EXCEPT !.spawns[c] = @ + 1]
              /\ UNCHANGED <<stack, pending, exitCode>>
         ELSE /\ Unwind("return", [hist EXCEPT !.spawnFailed = c])
              /\ child' = child
    /\ UNCHANGED <<handle, signals>>
    /\ UNCHANGED fnVars

\* self.api_process = ... / self.http_process = ... (lines 118, 135)
StoreHandle(c) ==
    /\ Running /\ pc = StorePc(c)
    /\ handle' = [handle EXCEPT ![c] = "set"]
    /\ pc' = AfterStore(c)
    /\ UNCHANGED <<stack, child, pending, exitCode, signals, hist>>
    /\ UNCHANGED fnVars

\* A health check that never reports a failure.
HealthFailsNever(st) == FALSE

\* check_server_health(), lines 151-158: the verdict on one polled child
HealthFails(st) == PollIsDead(st)

HealthPc(c) == IF c = "api" THEN "health_api" ELSE "health_http"

\* check_server_health(): one poll; a dead child makes run() call cleanup()
\* (line 234), then sys.exit(1) (line 235).
CheckHealth(c) ==
    /\ Running /\ pc = HealthPc(c)
    /\ child' = [child EXCEPT ![c] = PollChild(@)]
    /\ LET seen == IF PollIsDead(child[c])
                   THEN [hist EXCEPT !.deadAtHealth = @ \cup {c}]
                   ELSE hist
       IN IF HealthFails(child[c])
          THEN /\ pc' = "health_cleanup"
               /\ stack' = <<NewFrame("health")>>
               /\ hist' = [seen EXCEPT !.health = "failed", !.cleanups = @ + 1]
          ELSE /\ stack' = stack
               /\ IF c = "api"
                  THEN /\ pc' = "health_http"
                       /\ hist' = seen
                  ELSE /\ pc' = "monitor_api"
                       /\ hist' = [seen EXCEPT !.health = "passed",
                                               !.monitorEntered = TRUE]
    /\ UNCHANGED <<handle, pending, exitCode, signals>>
    /\ UNCHANGED fnVars

\* run(), line 235: sys.exit(1) after the cleanup of a failed health check
HealthExit ==
    /\ Running /\ pc = "health_exit"
    /\ Unwind("exit1", hist)
    /\ UNCHANGED <<handle, child, signals>>
    /\ UNCHANGED fnVars

MonitorPc(c) == IF c = "api" THEN "monitor_api" ELSE "monitor_http"

\* A supervisor that restarts the servers when the monitoring loop ends.
AfterMonitorRestart == "start_api"

\* Where run() goes when monitor_servers() returns (lines 245, 251-252).
AfterMonitor == "finally"

\* monitor_servers(), lines 164-175: one poll of the loop
Monitor(c) ==
    /\ Running /\ pc = MonitorPc(c)
    /\ child' = [child EXCEPT ![c] = PollChild(@)]
    /\ IF PollIsDead(child[c])
       THEN /\ pc' = AfterMonitor
            /\ pending' = "return"
            /\ IF AfterMonitor = "finally"
               THEN /\ stack' = <<NewFrame("finally")>>
                    /\ hist' = [hist EXCEPT !.observedDead = c, !.cleanups = @ + 1]
               ELSE /\ stack' = stack
                    /\ hist' = [hist EXCEPT !.observedDead = c]
       ELSE /\ pc' = IF c = "api" THEN "monitor_http" ELSE "monitor_api"
            /\ UNCHANGED <<stack, pending, hist>>
    /\ UNCHANGED <<handle, exitCode, signals>>
    /\ UNCHANGED fnVars

\* A child process exits on its own (crash, or its reaction to a signal).
ChildDies(c) ==
    /\ pc # "exited"
    /\ child[c] = "running"
    /\ child' = [child EXCEPT ![c] = "exited"]
    /\ UNCHANGED <<pc, stack, handle, pending, exitCode, signals, hist>>
    /\ UNCHANGED fnVars

\* SIGINT or SIGTERM is delivered: signal_handler (lines 205-209) runs on top
\* of whatever the main thread was doing and calls cleanup().
Signal ==
    /\ pc \notin {"install_handlers", "exited"}
    /\ signals < MaxSignals
    /\ signals' = signals + 1
    /\ stack' = Append(stack, NewFrame("handler"))
    /\ hist' = [hist EXCEPT !.cleanups = @ + 1]
    /\ UNCHANGED <<pc, handle, child, pending, exitCode>>
    /\ UNCHANGED fnVars

\* ---------------------------------------------------------------------
\* cleanup(), lines 177-203: one step of the innermost invocation
\* ---------------------------------------------------------------------

Top == stack[Len(stack)]

Cleaning(cpc) == stack # <<>> /\ Top.cpc = cpc

SetTop(f) == [stack EXCEPT ![Len(stack)] = f]

\* A cleanup() that stops after its first child.
LastChild(f) == [f EXCEPT !.cpc = "done"]

\* The frame once the current child is dealt with: the next child, or the end.
NextChild(f) ==
    IF f.who < Len(ChildOrder)
    THEN [f EXCEPT !.who = @ + 1, !.cpc = "check"]
    ELSE [f EXCEPT !.cpc = "done"]

\* "if self.api_process:" / "if self.http_process:" (lines 181, 192)
CleanupGuard(h) == h = "set"

CleanupCheck ==
    /\ Cleaning("check")
    /\ LET c == ChildOrder[Top.who]
       IN stack' = SetTop(IF CleanupGuard(handle[c])
                          THEN [Top EXCEPT !.cpc = "terminate"]
                          ELSE NextChild(Top))
    /\ UNCHANGED <<pc, handle, child, pending, exitCode, signals, hist>>
    /\ UNCHANGED fnVars

\* terminate() (lines 183, 194): SIGTERM unless the child is known dead
CleanupTerminate ==
    /\ Cleaning("terminate")
    /\ LET c == ChildOrder[Top.who]
       IN /\ hist' = [hist EXCEPT !.termCalls[c] = @ + 1,
                                  !.sigterms[c] = IF SignalIsSent(child[c])
                                                  THEN @ + 1 ELSE @]
          /\ child' = [child EXCEPT ![c] = PollChild(@)]
    /\ stack' = SetTop([Top EXCEPT !.cpc = "wait"])
    /\ UNCHANGED <<pc, handle, pending, exitCode, signals>>
    /\ UNCHANGED fnVars

\* terminate() raises (os.kill refused): "except Exception" (lines 189, 200)
\* logs it and cleanup() goes on with the next child.
CleanupTerminateRaises ==
    /\ Cleaning("terminate")
    /\ LET c == ChildOrder[Top.who]
       IN /\ SignalIsSent(child[c])
          /\ hist' = [hist EXCEPT !.termCalls[c] = @ + 1,
                                  !.termRefused[c] = @ + 1]
    /\ stack' = SetTop(NextChild(Top))
    /\ UNCHANGED <<pc, handle, child, pending, exitCode, signals>>
    /\ UNCHANGED fnVars

\* wait(timeout=5) (lines 184, 195): reaps a dead child, else TimeoutExpired
CleanupWait ==
    /\ Cleaning("wait")
    /\ LET c == ChildOrder[Top.who]
       IN IF PollIsDead(child[c])
          THEN /\ child' = [child EXCEPT ![c] = "reaped"]
               /\ stack' = SetTop(NextChild(Top))
               /\ hist' = hist
          ELSE /\ child' = child
               /\ stack' = SetTop([Top EXCEPT !.cpc = "kill"])
               /\ hist' = [hist EXCEPT !.timeouts[c] = @ + 1]
    /\ UNCHANGED <<pc, handle, pending, exitCode, signals>>
    /\ UNCHANGED fnVars

\* kill() in "except subprocess.TimeoutExpired" (lines 187, 198); the child
\* dies of SIGKILL some time later (ChildDies).
CleanupKill ==
    /\ Cleaning("kill")
    /\ LET c == ChildOrder[Top.who]
       IN /\ hist' = [hist EXCEPT !.killCalls[c] = @ + 1]
          /\ child' = [child EXCEPT ![c] = PollChild(@)]
    /\ stack' = SetTop(NextChild(Top))
    /\ UNCHANGED <<pc, handle, pending, exitCode, signals>>
    /\ UNCHANGED fnVars

\* cleanup() returns to its caller: signal_handler goes on to sys.exit(0)
\* (line 209), run() to sys.exit(1) (line 235) or to its end (line 252).
CleanupReturn ==
    /\ Cleaning("done")
    /\ LET h == [hist EXCEPT !.cleanupsDone = @ + 1]
       IN CASE Top.caller = "handler" -> Unwind("exit0", h)
            [] Top.caller = "health" ->
                 /\ pc' = "health_exit"
                 /\ stack' = <<>>
                 /\ hist' = h
                 /\ UNCHANGED <<pending, exitCode>>
            [] Top.caller = "finally" ->
                 /\ pc' = "exited"
                 /\ stack' = <<>>
                 /\ hist' = h
                 /\ exitCode' = ExitCodeOf(pending)
                 /\ UNCHANGED pending
    /\ UNCHANGED <<handle, child, signals>>
    /\ UNCHANGED fnVars

Next ==
    \/ InstallHandlers
    \/ SetupLogging
    \/ CreateVenv
    \/ VenvPython
    \/ ProbeDeps
    \/ PipInstall
    \/ CheckDependencies
    \/ \E c \in Children : StartServer(c)
    \/ \E c \in Children : StoreHandle(c)
    \/ \E c \in Children : CheckHealth(c)
    \/ HealthExit
    \/ \E c \in Children : Monitor(c)
    \/ \E c \in Children : ChildDies(c)
    \/ Signal
    \/ CleanupCheck
    \/ CleanupTerminate
    \/ CleanupTerminateRaises
    \/ CleanupWait
    \/ CleanupKill
    \/ CleanupReturn

Spec == Init /\ [][Next]_vars

TypeOK ==
    /\ exitCode \in {-1, 0, 1}
    /\ (pc = "exited") = (exitCode # -1)
    /\ pending \in {"return", "exit0", "exit1"}
    /\ (pc \in {"finally", "health_cleanup"} => stack # <<>>)

\* ---------------------------------------------------------------------
\* Properties of the supervisor
\* ---------------------------------------------------------------------

Exited == pc = "exited"

AllPrep == {"logs", "venv", "deps", "files"}

\* C1: however often cleanup() is invoked in a run, each child is sent a
\* termination request (SIGTERM from terminate()) at most once.
CleanupIdempotent ==
    \A c \in Children : hist.sigterms[c] <= 1

\* C2: when, after a passed health check and with no signal delivered, the
\* monitoring loop observes a dead child, the supervisor runs cleanup and
\* exits with a non-zero exit code.
MonitorDeathExitsNonZero ==
    (Exited /\ hist.observedDead # "none" /\ signals = 0)
        => (hist.cleanupsDone >= 1 /\ exitCode # 0)

\* C3 as claimed: a child found dead by check_server_health means the
\* monitoring loop is never entered, cleanup runs and the exit code is
\* non-zero.
HealthFailureExitsNonZero ==
    (Exited /\ hist.deadAtHealth # {})
        => (~hist.monitorEntered /\ hist.cleanupsDone >= 1 /\ exitCode # 0)

\* C3 as amended: a child found dead by check_server_health means the
\* failure is reported and the monitoring loop is never entered; the run ends
\* after a completed cleanup, with exit code 1 when no SIGINT/SIGTERM was
\* delivered and with signal_handler's exit code 0 otherwise.
HealthFailureExitsOneUnlessSignalled ==
    /\ hist.deadAtHealth # {}
         => (hist.health = "failed" /\ ~hist.monitorEntered)
    /\ (Exited /\ hist.deadAtHealth # {})
         => /\ hist.cleanupsDone >= 1
            /\ exitCode = (IF signals = 0 THEN 1 ELSE 0)

HealthFailureWitness ==
    /\ Exited /\ hist.deadAtHealth = {"api"} /\ signals = 0
    /\ exitCode = 1 /\ hist.cleanupsDone = 2

\* C4: a run in which a preparation step fails ends with no child ever
\* spawned and with exit code 1.
PrepFailureExitsOne ==
    (Exited /\ hist.prepFailed # "none")
        => (exitCode = 1 /\ \A c \in Children : hist.spawns[c] = 0)

\* C5: once shutdown is triggered by a signal or by the monitoring loop
\* exiting, each spawned child is asked to terminate, and a child whose
\* wait timed out is force-killed (or has been reaped since).
ShutdownStopsEverySpawnedChild ==
    (Exited /\ (signals > 0 \/ hist.observedDead # "none"))
        => \A c \in Children :
              hist.spawns[c] > 0
                 => /\ hist.termCalls[c] >= 1
                    /\ hist.timeouts[c] > 0
                         => (hist.killCalls[c] >= 1 \/ child[c] = "reaped")

\* The lifecycle phase the supervisor is in.
Phase ==
    CASE pc = "exited" -> 7
      [] pc # "exited" /\ (stack # <<>> \/ pc \in {"health_exit", "finally"}) -> 6
      [] OTHER ->
           CASE pc \in {"monitor_api", "monitor_http"} -> 5
             [] pc \in {"health_api", "health_http"} -> 3
             [] pc \in {"check_files", "start_api", "store_api",
                        "start_http", "store_http"} -> 2
             [] pc \in {"probe_deps", "pip_install"} -> 1
             [] OTHER -> 0

LifecycleInv ==
    /\ \A c \in Children : hist.spawns[c] <= 1
    /\ hist.spawns["api"] > 0 => hist.prepDone = AllPrep
    /\ hist.spawns["http"] > 0 => (hist.spawns["api"] > 0 /\ handle["api"] = "set")
    /\ hist.monitorEntered
         => /\ hist.health = "passed"
            /\ hist.deadAtHealth = {}
            /\ \A c \in Children : handle[c] = "set"
    /\ Phase = 5 => hist.monitorEntered

\* C6: the supervisor only moves forward through its lifecycle; no child is
\* spawned before every preparation step succeeded, the API server is
\* spawned before the HTTP server, monitoring starts only after a health
\* check that found both children alive, and no child is spawned twice.
LifecycleOrder ==
    [] LifecycleInv /\ [][Phase' >= Phase]_vars

LifecycleWitness ==
    /\ Exited /\ hist.monitorEntered /\ hist.observedDead = "http"
    /\ \A c \in Children : hist.spawns[c] = 1

Systems == {"Linux", "Windows", "Other"}

\* The wmi module: not importable, working, or raising when queried.
WmiStates == {"absent", "ok", "raises"}

\* Optional values: None is the empty tuple, a value v is <<v>>.
None == <<>>

Some(v) == <<v>>

\* A supervisor that is not part of a collector call.
FnSupIdle == SupInit

SeqsUpTo(S, n) == UNION {[1..k -> S] : k \in 0..n}

\* The nearest integer to n / d (d > 0), ties to the even neighbour: what
\* round() gives for a quotient that is exact in binary floating point.
RoundHalfEven(n, d) ==
    LET q == n \div d
        r == n % d
    IN IF 2 * r < d THEN q
       ELSE IF 2 * r > d THEN q + 1
       ELSE IF q % 2 = 0 THEN q ELSE q + 1

\* bytes_to_gb (lines 34-36): round(b / 1024**3, 2).  Sizes are held in MiB
\* and results in hundredths of a GB, so b / 1024**3 is mib / 1024.
bytes_to_gb(mib) == RoundHalfEven(mib * 100, 1024)

\* ---------------------------------------------------------------------
\* get_storage_info (lines 180-277)
\* ---------------------------------------------------------------------

\* Largest number of entries psutil.disk_partitions() returns.
MaxParts == 2

Chars(s1, s2, s3, s4, s5) == <<s1, s2, s3, s4, s5>>

RootMount == <<"/">>

Vol1Mount == Chars("/", "v", "o", "l", "1")

Vol2Mount == Chars("/", "v", "o", "l", "2")

MntMount == <<"/", "m", "n", "t">>

MountPoints == {RootMount, Vol1Mount, Vol2Mount, MntMount}

Devices == {"/dev/sda1", "/dev/sdb1"}

FsTypes == {"ext4", "tmpfs"}

\* line 201: the filesystem types the Linux branch skips
PseudoFs == {"tmpfs", "devtmpfs", "sysfs", "proc", "devpts"}

PartEntries == [device : Devices, mountpoint : MountPoints, fstype : FsTypes]

\* str.startswith
StartsWith(str, prefix) ==
    /\ Len(str) >= Len(prefix)
    /\ SubSeq(str, 1, Len(prefix)) = prefix

\* psutil.disk_usage(mountpoint) when it succeeds: used and total, in MiB.
UsageOf(mp) ==
    CASE mp = RootMount -> [used |-> 20608, total |-> 61440]
      [] mp = Vol1Mount -> [used |-> 1000000, total |-> 1907729]
      [] mp = Vol2Mount -> [used |-> 128, total |-> 3815447]
      [] OTHER -> [used |-> 0, total |-> 512]

\* lines 208-215: the display name of a mount point
DisplayName(mp, dev) ==
    IF mp = RootMount THEN <<"system disk", " (/)">>
    ELSE IF mp = Vol1Mount THEN <<mp, " (application storage)">>
    ELSE IF StartsWith(mp, <<"/", "v", "o", "l">>) THEN <<mp, " (storage volume)">>
    ELSE <<mp, " (", dev, ")">>

\* One element of result['disks']; src is the index of the partition entry
\* it was made from (0: made from a WMI disk drive).
DiskEntry(name, usage, src) ==
    [name |-> name, used_gb |-> bytes_to_gb(usage.used),
     total_gb |-> bytes_to_gb(usage.total), src |-> src]

\* line 201
SkipsFsType(fstype) == fstype \in PseudoFs

RECURSIVE LinuxScan(_, _, _, _, _)
\* lines 190-227: the loop over psutil.disk_partitions(all=False)
LinuxScan(parts, usageOK, i, processed, disks) ==
    IF i > Len(parts) THEN disks
    ELSE LET p == parts[i]
         IN IF p.mountpoint \in processed
            THEN LinuxScan(parts, usageOK, i + 1, processed, disks)
            ELSE IF SkipsFsType(p.fstype)
            THEN LinuxScan(parts, usageOK, i + 1, processed, disks)
            ELSE IF usageOK[i]
            THEN LinuxScan(parts, usageOK, i + 1,
                           processed \cup {p.mountpoint},
                           Append(disks,
                                  DiskEntry(DisplayName(p.mountpoint, p.device),
                                            UsageOf(p.mountpoint), i)))
            ELSE LinuxScan(parts, usageOK, i + 1, processed, disks)

RECURSIVE FallbackScan(_, _, _, _, _)
\* lines 260-274: the loop of the fallback branch
FallbackScan(parts, usageOK, i, seen, mounts) ==
    IF i > Len(parts) THEN mounts
    ELSE LET p == parts[i]
         IN IF p.mountpoint \in seen
            THEN FallbackScan(parts, usageOK, i + 1, seen, mounts)
            ELSE IF usageOK[i]
            THEN FallbackScan(parts, usageOK, i + 1, seen \cup {p.mountpoint},
                              Append(mounts,
                                     DiskEntry(p.device, UsageOf(p.mountpoint), i)))
            ELSE FallbackScan(parts, usageOK, i + 1, seen \cup {p.mountpoint},
                              mounts)

\* lines 235-253: one entry per Win32_DiskDrive
WmiScan(drives) ==
    [k \in 1..Len(drives) |->
        DiskEntry(drives[k].model,
                  [used |-> drives[k].used, total |-> drives[k].size], 0)]

StorageResult(disks) == [disk_count |-> Len(disks), disks |-> disks]

\* get_storage_info as a function of what the OS returns.  q.partsFail: the
\* partition enumeration raises, which no branch that uses it catches.
get_storage_info(q) ==
    IF q.system = "Linux"
    THEN IF q.partsFail THEN [raised |-> "disk_partitions"]
         ELSE StorageResult(LinuxScan(q.parts, q.usageOK, 1, {}, <<>>))
    ELSE IF q.system = "Windows" /\ q.wmi = "ok"
    THEN StorageResult(WmiScan(q.drives))
    ELSE IF q.partsFail THEN [raised |-> "disk_partitions"]
         ELSE StorageResult(FallbackScan(q.parts, q.usageOK, 1, {}, <<>>))

WmiDriveSamples ==
    { <<>>,
      <<[model |-> "WDC WD40EFRX", used |-> 1000000, size |-> 3815447]>> }

\* The platforms: wmi is only ever importable on Windows (lines 26-29).
Platforms ==
    { p \in [system : Systems, wmi : WmiStates] :
        p.system # "Windows" => p.wmi = "absent" }

\* What the OS returns to one call of get_storage_info: the partition
\* enumeration raises, or returns up to MaxParts entries, each with the
\* outcome of its disk_usage call; WMI drives only where WMI answers.
StorageInit ==
    /\ FnSupIdle
    /\ fpc = "get_storage_info"
    /\ out = <<>>
    /\ \E p \in Platforms, pf \in BOOLEAN, k \in 0..MaxParts :
         \E ps \in [1..k -> PartEntries], ok \in [1..k -> BOOLEAN],
            dr \in WmiDriveSamples :
              /\ pf => k = 0
              /\ p.wmi # "ok" => dr = <<>>
              /\ inp = [system |-> p.system, wmi |-> p.wmi, partsFail |-> pf,
                        parts |-> ps, usageOK |-> ok, drives |-> dr]

StorageCall ==
    /\ fpc = "get_storage_info"
    /\ out' = get_storage_info(inp)
    /\ fpc' = "done"
    /\ UNCHANGED <<inp, supVars>>

StorageNext == StorageCall

SpecStorage == StorageInit /\ [][StorageNext]_vars

\* The partition entry a disk entry was made from.
SourceOf(e) == inp.parts[e.src]

\* C8: in the output of get_storage_info no mount point is represented by
\* more than one disk entry; two partition entries with the same mount point
\* (not a pseudo-filesystem, usage query succeeding) give exactly one disk
\* entry; pseudo-filesystem entries give none.
StorageDedupAndFilter ==
    (fpc = "done" /\ "disks" \in DOMAIN out /\ inp.parts # <<>>
       /\ ~(inp.system = "Windows" /\ inp.wmi = "ok"))
    => /\ \A i, j \in 1..Len(out.disks) :
             i # j => SourceOf(out.disks[i]).mountpoint
                        # SourceOf(out.disks[j]).mountpoint
       /\ \A i \in 1..Len(out.disks) :
             SourceOf(out.disks[i]).fstype \notin PseudoFs
       /\ ( /\ Len(inp.parts) = 2
            /\ inp.parts[1].mountpoint = inp.parts[2].mountpoint
            /\ \A k \in 1..2 : inp.parts[k].fstype \notin PseudoFs /\ inp.usageOK[k] )
          => (Len(out.disks) = 1 /\ out.disk_count = 1)

\* ---------------------------------------------------------------------
\* get_cpu_temperature (lines 49-111).  Temperatures are held in
\* thousandths of a degree Celsius.
\* ---------------------------------------------------------------------

\* Largest number of sensor groups psutil.sensors_temperatures() returns.
MaxGroups == 2
\* Largest number of readings in one group, and of entries in one listing.
MaxReadings == 2

\* line 57: the sensor groups looked for, in this order
RecognizedKeys == <<"coretemp", "k10temp", "zenpower", "cpu-thermal">>

SensorKeys == {"coretemp", "k10temp", "zenpower", "cpu-thermal", "acpitz"}

\* The "current" field of one sensor: None or a temperature.
Readings == {None, Some(0), Some(40000)}

ReadingLists == SeqsUpTo(Readings, MaxReadings)

\* The sets of group names psutil.sensors_temperatures() may return.
KeySets == {X \in SUBSET SensorKeys : Cardinality(X) <= MaxGroups}

\* psutil.sensors_temperatures(): a dict from group name to readings; for
\* each name, whether it is a key of the dict and the readings it maps to.
TempDict(K, f) ==
    [k \in SensorKeys |->
        IF k \in K THEN [present |-> TRUE, sensors |-> f[k]]
        ELSE [present |-> FALSE, sensors |-> <<>>]]

\* The outcome of one OS query: not made yet, raised, or returned val.
Unread == [st |-> "unread", val |-> <<>>]

Raises == [st |-> "raises", val |-> <<>>]

Returned(v) == [st |-> "ok", val |-> v]

RECURSIVE SeqMax(_)
\* max() of a non-empty list of numbers
SeqMax(vals) ==
    IF Len(vals) = 1 THEN vals[1]
    ELSE LET m == SeqMax(Tail(vals))
         IN IF vals[1] >= m THEN vals[1] ELSE m

\* The first reading of a list instead of its maximum.
SeqFirst(vals) == vals[1]

\* float(max(vals)) (lines 61, 81, 98)
MaxReading(vals) == SeqMax(vals)

\* line 59: [s.current for s in temps[key] if s.current is not None]
CurrentValues(sensors) ==
    LET Keep(x) == x # None
        kept == SelectSeq(sensors, Keep)
    IN [i \in 1..Len(kept) |-> kept[i][1]]

RECURSIVE GroupScan(_, _)
\* lines 57-61: the first recognized group that has a reading decides
GroupScan(temps, k) ==
    IF k > Len(RecognizedKeys) THEN None
    ELSE LET key == RecognizedKeys[k]
         IN IF temps[key].present /\ temps[key].sensors # <<>>
            THEN LET vals == CurrentValues(temps[key].sensors)
                 IN IF vals # <<>> THEN Some(MaxReading(vals))
                    ELSE GroupScan(temps, k + 1)
            ELSE GroupScan(temps, k + 1)

\* One name in /sys/class/thermal: whether it is a thermal_zone* directory
\* with a temp file, and the integer read from it (None: unreadable).
ZoneEntries ==
    { [zone |-> FALSE, raw |-> None], [zone |-> TRUE, raw |-> None],
      [zone |-> TRUE, raw |-> Some(0)], [zone |-> TRUE, raw |-> Some(45)],
      [zone |-> TRUE, raw |-> Some(52000)] }

ZoneLists == SeqsUpTo(ZoneEntries, MaxReadings)

\* lines 74-77: values above 1000 are taken as millidegrees
ZoneCelsius(val) == IF val > 1000 THEN val ELSE val * 1000

\* lines 64-81: the fallback to /sys/class/thermal
ZoneScan(listing) ==
    LET Usable(z) == z.zone /\ z.raw # None
        kept == SelectSeq(listing, Usable)
        res == [i \in 1..Len(kept) |-> ZoneCelsius(kept[i].raw[1])]
    IN IF res # <<>> THEN Some(MaxReading(res)) ELSE None

\* MSAcpi_ThermalZoneTemperature: CurrentTemperature in tenths of a kelvin,
\* None for a sensor without the attribute.
AcpiReadings == {None, Some(2732), Some(3132)}

AcpiLists == SeqsUpTo(AcpiReadings, MaxReadings)

\* line 95: CurrentTemperature / 10.0 - 273.15
AcpiCelsius(dk) == dk * 100 - 273150

\* lines 89-98
AcpiScan(sensors) ==
    LET Keep(x) == x # None
        kept == SelectSeq(sensors, Keep)
        vals == [i \in 1..Len(kept) |-> AcpiCelsius(kept[i][1])]
    IN IF vals # <<>> THEN Some(MaxReading(vals)) ELSE None

\* OpenHardwareMonitor sensors: type, whether the name contains "cpu", value
OhmSensors ==
    [type : {"Temperature", "Load"}, cpu : BOOLEAN, value : {0, 55000}]

OhmLists == SeqsUpTo(OhmSensors, MaxReadings)

RECURSIVE OhmScan(_, _)
\* lines 103-106: the first CPU temperature sensor decides
OhmScan(sensors, i) ==
    IF i > Len(sensors) THEN None
    ELSE IF sensors[i].type = "Temperature" /\ sensors[i].cpu
         THEN Some(sensors[i].value)
         ELSE OhmScan(sensors, i + 1)

\* get_cpu_temperature as a function of what its queries returned; a query
\* the call never makes is left unread.
get_cpu_temperature(q) ==
    IF q.system = "Linux"
    THEN IF q.temps.st # "ok" THEN None
         ELSE IF GroupScan(q.temps.val, 1) # None THEN GroupScan(q.temps.val, 1)
         ELSE IF q.zones.st # "ok" THEN None
         ELSE ZoneScan(q.zones.val)
    ELSE IF q.system = "Windows" /\ q.wmi = "ok"
    THEN IF q.acpi.st = "ok" /\ AcpiScan(q.acpi.val) # None
         THEN AcpiScan(q.acpi.val)
         ELSE IF q.ohm.st # "ok" THEN None
         ELSE OhmScan(q.ohm.val, 1)
    ELSE None

\* Whether the call goes on to read /sys/class/thermal (line 63).
NeedsZones(q) == q.temps.st = "ok" /\ GroupScan(q.temps.val, 1) = None

\* Whether the call goes on to query OpenHardwareMonitor (line 102).
NeedsOhm(q) == ~(q.acpi.st = "ok" /\ AcpiScan(q.acpi.val) # None)

TempInputs ==
    { [system |-> sy, wmi |-> w, temps |-> Unread, zones |-> Unread,
       acpi |-> Unread, ohm |-> Unread] :
        sy \in Systems, w \in {"absent", "ok"} }

TempInit ==
    /\ FnSupIdle
    /\ fpc = "get_cpu_temperature"
    /\ inp \in {q \in TempInputs : q.system # "Windows" => q.wmi = "absent"}
    /\ out = <<>>

TempReturn(v) ==
    /\ out' = [value |-> v]
    /\ fpc' = "done"

\* lines 53-61 and 82-84: the psutil query and the scan of its groups
TempSensors ==
    /\ fpc = "get_cpu_temperature" /\ inp.system = "Linux"
    /\ \/ inp' = [inp EXCEPT !.temps = Raises]
       \/ \E K \in KeySets : \E f \in [K -> ReadingLists] :
            inp' = [inp EXCEPT !.temps = Returned(TempDict(K, f))]
    /\ IF NeedsZones(inp')
       THEN /\ fpc' = "thermal"
            /\ out' = out
       ELSE TempReturn(get_cpu_temperature(inp'))
    /\ UNCHANGED supVars

\* os.path.isdir('/sys/class/thermal') is false (line 64)
NoDir == [st |-> "nodir", val |-> <<>>]

\* lines 63-84: /sys/class/thermal is missing, unreadable, or listed
TempThermal ==
    /\ fpc = "thermal"
    /\ \E z \in {NoDir, Raises} \cup {Returned(l) : l \in ZoneLists} :
         inp' = [inp EXCEPT !.zones = z]
    /\ TempReturn(get_cpu_temperature(inp'))
    /\ UNCHANGED supVars

\* lines 87-100: the ACPI thermal zones through WMI
TempAcpi ==
    /\ fpc = "get_cpu_temperature" /\ inp.system = "Windows" /\ inp.wmi = "ok"
    /\ \E a \in {Raises} \cup {Returned(l) : l \in AcpiLists} :
         inp' = [inp EXCEPT !.acpi = a]
    /\ IF NeedsOhm(inp')
       THEN /\ fpc' = "ohm"
            /\ out' = out
       ELSE TempReturn(get_cpu_temperature(inp'))
    /\ UNCHANGED supVars

\* lines 101-109: the OpenHardwareMonitor namespace
TempOhm ==
    /\ fpc = "ohm"
    /\ \E o \in {Raises} \cup {Returned(l) : l \in OhmLists} :
         inp' = [inp EXCEPT !.ohm = o]
    /\ TempReturn(get_cpu_temperature(inp'))
    /\ UNCHANGED supVars

\* line 111, and line 87 with wmi = None: no source on this platform
TempUnsupported ==
    /\ fpc = "get_cpu_temperature"
    /\ inp.system = "Other" \/ (inp.system = "Windows" /\ inp.wmi = "absent")
    /\ TempReturn(get_cpu_temperature(inp))
    /\ UNCHANGED <<inp, supVars>>

TempNext ==
    \/ TempSensors
    \/ TempThermal
    \/ TempAcpi
    \/ TempOhm
    \/ TempUnsupported

SpecTemp == TempInit /\ [][TempNext]_vars

\* The temperatures among a list of optional readings.
ValuesOf(sensors) ==
    {sensors[i][1] : i \in {j \in 1..Len(sensors) : sensors[j] # None}}

SetMax(S) == CHOOSE m \in S : \A x \in S : x <= m

RecognizedSet == {RecognizedKeys[k] : k \in 1..Len(RecognizedKeys)}

\* Every reading of every recognized group of a sensors dict.
AllRecognizedReadings(t) ==
    UNION {ValuesOf(t[key].sensors) : key \in RecognizedSet}

\* The readings /sys/class/thermal gave, in thousandths of a degree.
ZoneReadings ==
    IF inp.zones.st # "ok" THEN {}
    ELSE {ZoneCelsius(inp.zones.val[i].raw[1]) :
            i \in {j \in 1..Len(inp.zones.val) :
                     inp.zones.val[j].zone /\ inp.zones.val[j].raw # None}}

Optional(S) == IF S = {} THEN None ELSE Some(SetMax(S))

LinuxAnswered == fpc = "done" /\ inp.system = "Linux" /\ inp.temps.st = "ok"

\* C9 as claimed: the result is the maximum reading over all recognized
\* sensor groups that are present, and null exactly when no recognized
\* source has a reading.
TempIsMaxOverAllGroups ==
    LinuxAnswered =>
        LET all == AllRecognizedReadings(inp.temps.val)
        IN /\ all # {} => out.value = Some(SetMax(all))
           /\ (out.value = None) <=> (all = {} /\ ZoneReadings = {})

\* The recognized groups, by position in RecognizedKeys, that have a reading.
GroupsWithReadings(t) ==
    {k \in 1..Len(RecognizedKeys) : ValuesOf(t[RecognizedKeys[k]].sensors) # {}}

\* C9 as amended: on Linux the result is the maximum reading of the first
\* group, in the order coretemp, k10temp, zenpower, cpu-thermal, that has a
\* reading; with no such group it is the maximum over the thermal zones of
\* /sys/class/thermal; it is null exactly when neither has a reading or a
\* query raised, so a reading of 0 is reported as 0.  On Windows it is the
\* maximum ACPI thermal-zone reading, else the first CPU temperature sensor
\* of OpenHardwareMonitor; elsewhere it is null.
TempIsMaxOfFirstGroup ==
    fpc = "done" =>
      CASE inp.system = "Linux" ->
             IF inp.temps.st # "ok" THEN out.value = None
             ELSE LET g == GroupsWithReadings(inp.temps.val)
                  IN IF g # {}
                     THEN LET k0 == CHOOSE k \in g : \A j \in g : k <= j
                          IN out.value = Some(SetMax(ValuesOf(
                                 inp.temps.val[RecognizedKeys[k0]].sensors)))
                     ELSE out.value = Optional(ZoneReadings)
        [] inp.system = "Windows" /\ inp.wmi = "ok" ->
             LET a == IF inp.acpi.st = "ok"
                      THEN {AcpiCelsius(v) : v \in ValuesOf(inp.acpi.val)}
                      ELSE {}
             IN IF a # {} THEN out.value = Some(SetMax(a))
                ELSE IF inp.ohm.st # "ok" THEN out.value = None
                ELSE LET c == {i \in 1..Len(inp.ohm.val) :
                                 inp.ohm.val[i].type = "Temperature"
                                   /\ inp.ohm.val[i].cpu}
                     IN IF c = {} THEN out.value = None
                        ELSE out.value =
                               Some(inp.ohm.val[CHOOSE i \in c :
                                                  \A j \in c : i <= j].value)
        [] OTHER -> out.value = None

\* Two recognized groups are present, the first reads 0 and the second
\* more: the result is 0, neither the overall maximum nor null.
TempFirstGroupWitness ==
    /\ LinuxAnswered
    /\ inp.temps.val["coretemp"].sensors = <<Some(0), None>>
    /\ inp.temps.val["k10temp"].sensors = <<Some(0), Some(40000)>>
    /\ out.value = Some(0)

\* ---------------------------------------------------------------------
\* get_network_rate (lines 301-314).  Rates are held in thousandths of a
\* Mbps, the sampling window in seconds.
\* ---------------------------------------------------------------------

\* Longest sampling window, in seconds.
MaxWindow == 2

\* psutil.net_io_counters(): bytes_sent and bytes_recv
CounterValues == {0, 62, 125, 1000000, 1000063}

Counters == [bytes_sent : CounterValues, bytes_recv : CounterValues]

\* A rate that forgets the factor of 8 bits per byte.
BytesPerWindow(delta) == delta

\* (c2 - c1) * 8.0: the bits sent or received in the window (lines 307-308)
BitsPerWindow(delta) == delta * 8

\* round(x, 3) of x = n / d thousandths (d > 0): the nearest integer; on an
\* exact decimal tie the binary value of x decides, so either neighbour.
Round3(n, d) ==
    LET q == n \div d
        r == n % d
    IN IF 2 * r < d THEN {q}
       ELSE IF 2 * r > d THEN {q + 1}
       ELSE {q, q + 1}

\* lines 307-311: bits / sample_seconds / 1_000_000, in thousandths
RateMbps(delta, window) == Round3(BitsPerWindow(delta), window * 1000)

ZeroRates == [up_mbps |-> 0, down_mbps |-> 0]

\* get_network_rate as a function of its two counter readings: the set of
\* values it may return.  A failed reading and a zero window (division by
\* zero) both end in "except Exception".
get_network_rate(c1, c2, window) ==
    IF c1.st # "ok" \/ c2.st # "ok" \/ window = 0 THEN {ZeroRates}
    ELSE { [up_mbps |-> u, down_mbps |-> d] :
             u \in RateMbps(c2.val.bytes_sent - c1.val.bytes_sent, window),
             d \in RateMbps(c2.val.bytes_recv - c1.val.bytes_recv, window) }

NetInit ==
    /\ FnSupIdle
    /\ fpc = "get_network_rate"
    /\ out = <<>>
    /\ \E w \in 0..MaxWindow : inp = [window |-> w, c1 |-> Unread, c2 |-> Unread]

\* line 304: the first reading
NetFirstReading ==
    /\ fpc = "get_network_rate"
    /\ \E r \in {Raises} \cup {Returned(c) : c \in Counters} :
         /\ inp' = [inp EXCEPT !.c1 = r]
         /\ IF r.st = "ok"
            THEN /\ fpc' = "sleep"
                 /\ out' = out
            ELSE /\ fpc' = "done"
                 /\ out' \in get_network_rate(r, inp.c2, inp.window)
    /\ UNCHANGED supVars

\* lines 305-314: the sleep, the second reading and the rates
NetSecondReading ==
    /\ fpc = "sleep"
    /\ \E r \in {Raises} \cup {Returned(c) : c \in Counters} :
         /\ inp' = [inp EXCEPT !.c2 = r]
         /\ out' \in get_network_rate(inp.c1, r, inp.window)
    /\ fpc' = "done"
    /\ UNCHANGED supVars

NetNext == NetFirstReading \/ NetSecondReading

SpecNet == NetInit /\ [][NetNext]_vars

Abs(x) == IF x < 0 THEN -x ELSE x

\* The rate r (thousandths of a Mbps) is delta * 8 / window bits per second,
\* divided by 1,000,000 and rounded to 3 decimals.
IsRate(r, delta, window) ==
    2 * Abs(r * 1000 * window - 8 * delta) <= 1000 * window

\* C10: up_mbps and down_mbps are, separately for sent and received bytes,
\* (second reading - first reading) * 8 / window / 1,000,000 rounded to 3
\* decimals; 1,000,000 bytes sent in 1 second give up_mbps = 8.0; a failed
\* counter reading gives 0.0 and 0.0.
NetRateIsScaledDelta ==
    fpc = "done" =>
       IF inp.c1.st # "ok" \/ inp.c2.st # "ok" \/ inp.window = 0
       THEN out = ZeroRates
       ELSE LET sent == inp.c2.val.bytes_sent - inp.c1.val.bytes_sent
                recv == inp.c2.val.bytes_recv - inp.c1.val.bytes_recv
            IN /\ IsRate(out.up_mbps, sent, inp.window)
               /\ IsRate(out.down_mbps, recv, inp.window)
               /\ (sent = 1000000 /\ inp.window = 1) => out.up_mbps = 8000

\* 1,000,000 bytes sent and 62 received in a 1-second window: 8.0 and 0.0
NetRateWitness ==
    /\ fpc = "done" /\ inp.window = 1
    /\ inp.c1.st = "ok" /\ inp.c2.st = "ok"
    /\ inp.c2.val.bytes_sent - inp.c1.val.bytes_sent = 1000000
    /\ inp.c2.val.bytes_recv - inp.c1.val.bytes_recv = 62
    /\ out = [up_mbps |-> 8000, down_mbps |-> 0]

\* ---------------------------------------------------------------------
\* collect_system_info (lines 329-357) and the collectors it calls
\* ---------------------------------------------------------------------

\* get_cpu_usage (lines 41-46); the percentage is held in tenths
get_cpu_usage(cpu) == IF cpu.st = "ok" THEN cpu.val ELSE 0

\* get_memory_usage (lines 116-125); vm.total and vm.available in MiB
get_memory_usage(vm) ==
    IF vm.st = "ok"
    THEN [used_gb |-> bytes_to_gb(vm.val.total - vm.val.available),
          total_gb |-> bytes_to_gb(vm.val.total)]
    ELSE [used_gb |-> 0, total_gb |-> 0]

RECURSIVE InetAddresses(_, _, _)
\* lines 292-297: the AF_INET addresses of one interface
InetAddresses(name, arr, i) ==
    IF i > Len(arr) THEN <<>>
    ELSE IF arr[i].family = "AF_LINK" THEN InetAddresses(name, arr, i + 1)
    ELSE IF arr[i].family = "AF_INET"
         THEN <<[name |-> name, ip |-> arr[i].address]>>
                \o InetAddresses(name, arr, i + 1)
         ELSE InetAddresses(name, arr, i + 1)

RECURSIVE InterfaceScan(_, _)
\* lines 288-298: the loop over psutil.net_if_addrs()
InterfaceScan(addrs, i) ==
    IF i > Len(addrs) THEN <<>>
    ELSE IF StartsWith(addrs[i].name, <<"b", "r", "-">>)
         THEN InterfaceScan(addrs, i + 1)
         ELSE InetAddresses(addrs[i].name, addrs[i].arr, 1)
                \o InterfaceScan(addrs, i + 1)

\* get_ip_interfaces (lines 282-298): nothing catches a failing
\* psutil.net_if_addrs()
get_ip_interfaces(ifs) ==
    IF ifs.st = "ok" THEN [interfaces |-> InterfaceScan(ifs.val, 1)]
    ELSE [raised |-> "net_if_addrs"]

\* is_debian_kernel_special (lines 321-326)
is_debian_kernel_special(system, release) ==
    system = "Linux" /\ release = "6.12.18-trim"

\* What a healthy host answers to each query.
SampleVersion == "#1 SMP PREEMPT_DYNAMIC"

SampleCpu == 375

SampleMemory == [total |-> 16384, available |-> 8192]

SampleParts ==
    << [device |-> "/dev/sda1", mountpoint |-> RootMount, fstype |-> "ext4"],
       [device |-> "/dev/sdb1", mountpoint |-> Vol1Mount, fstype |-> "ext4"] >>

SampleTemps ==
    TempDict({"coretemp"}, [k \in {"coretemp"} |-> <<Some(40000), Some(0)>>])

SampleInterfaces ==
    << [name |-> <<"l", "o">>,
        arr |-> <<[family |-> "AF_INET", address |-> "127.0.0.1"]>>],
       [name |-> <<"e", "t", "h", "0">>,
        arr |-> <<[family |-> "AF_LINK", address |-> "aa:bb:cc:dd:ee:ff"],
                  [family |-> "AF_INET", address |-> "192.168.1.10"],
                  [family |-> "AF_INET6", address |-> "fe80::1"]>>],
       [name |-> <<"b", "r", "-", "f", "8">>,
        arr |-> <<[family |-> "AF_INET", address |-> "172.18.0.1"]>>] >>

SampleCounters1 == [bytes_sent |-> 0, bytes_recv |-> 62]

SampleCounters2 == [bytes_sent |-> 1000000, bytes_recv |-> 125]

\* line 354: get_network_rate(1.0)
SampleSeconds == 1

\* The OS queries collect_system_info depends on.
Queries == {"cpu_percent", "sensors_temperatures", "virtual_memory",
            "disk_partitions", "disk_usage", "net_if_addrs",
            "net_io_counters"}

Answer(failing, query, v) == IF query \in failing THEN Raises ELSE Returned(v)

\* The inputs of the collectors on a host where the queries in failing raise.
StorageQuery(system, failing) ==
    [system |-> system, wmi |-> "absent",
     partsFail |-> "disk_partitions" \in failing,
     parts |-> IF "disk_partitions" \in failing THEN <<>> ELSE SampleParts,
     usageOK |-> IF "disk_partitions" \in failing THEN <<>>
                 ELSE [i \in 1..Len(SampleParts) |-> "disk_usage" \notin failing],
     drives |-> <<>>]

TempQuery(system, failing) ==
    [system |-> system, wmi |-> "absent",
     temps |-> Answer(failing, "sensors_temperatures", SampleTemps),
     zones |-> Unread, acpi |-> Unread, ohm |-> Unread]

\* collect_system_info: the snapshot, or the exception that escapes it.
\* Storage and interfaces are collected without a try block around the
\* enumeration, so their exceptions propagate to the caller.
collect_system_info(system, release, failing, rates) ==
    LET storage == get_storage_info(StorageQuery(system, failing))
        ifs == get_ip_interfaces(Answer(failing, "net_if_addrs", SampleInterfaces))
    IN IF "raised" \in DOMAIN storage
       THEN [raised |-> TRUE, by |-> storage.raised]
       ELSE IF "raised" \in DOMAIN ifs
       THEN [raised |-> TRUE, by |-> ifs.raised]
       ELSE [raised |-> FALSE,
             os |-> system,
             os_release |-> release,
             os_version |-> SampleVersion,
             debian_kernel_6_12_18_trim |-> is_debian_kernel_special(system, release),
             cpu |-> [usage_percent |->
                         get_cpu_usage(Answer(failing, "cpu_percent", SampleCpu)),
                      temperature_c |->
                         get_cpu_temperature(TempQuery(system, failing))],
             memory |-> get_memory_usage(
                            Answer(failing, "virtual_memory", SampleMemory)),
             storage |-> storage,
             network |-> [interfaces |-> ifs.interfaces,
                          up_mbps |-> rates.up_mbps,
                          down_mbps |-> rates.down_mbps]]

Releases == {"6.12.18-trim", "6.1.0-18-amd64"}

CollectInit ==
    /\ FnSupIdle
    /\ fpc = "collect_system_info"
    /\ out = <<>>
    /\ \E sy \in Systems, rel \in Releases, failing \in SUBSET Queries :
         inp = [system |-> sy, release |-> rel, failing |-> failing]

CollectCall ==
    /\ fpc = "collect_system_info"
    /\ \E rates \in get_network_rate(
                       Answer(inp.failing, "net_io_counters", SampleCounters1),
                       Answer(inp.failing, "net_io_counters", SampleCounters2),
                       SampleSeconds) :
         out' = collect_system_info(inp.system, inp.release, inp.failing, rates)
    /\ fpc' = "done"
    /\ UNCHANGED <<inp, supVars>>

CollectNext == CollectCall

SpecCollect == CollectInit /\ [][CollectNext]_vars

\* C7: collect_system_info never raises: whichever OS queries fail, it
\* returns a snapshot with the keys os, cpu, memory, storage and network in
\* which every failed collector contributes its default (0.0, empty list or
\* null) and the others their values.
CollectNeverRaises ==
    fpc = "done" =>
      /\ out.raised = FALSE
      /\ {"os", "cpu", "memory", "storage", "network"} \subseteq DOMAIN out
      /\ out.cpu.usage_percent
           = (IF "cpu_percent" \in inp.failing THEN 0 ELSE SampleCpu)
      /\ "sensors_temperatures" \in inp.failing => out.cpu.temperature_c = None
      /\ out.memory
           = (IF "virtual_memory" \in inp.failing
              THEN [used_gb |-> 0, total_gb |-> 0]
              ELSE [used_gb |-> 800, total_gb |-> 1600])
      /\ ("disk_partitions" \in inp.failing \/ "disk_usage" \in inp.failing)
           => out.storage = [disk_count |-> 0, disks |-> <<>>]
      /\ "net_if_addrs" \in inp.failing => out.network.interfaces = <<>>
      /\ "net_io_counters" \in inp.failing
           => (out.network.up_mbps = 0 /\ out.network.down_mbps = 0)

(***************************************************************************)
(* get_image_files (system_info.py).  File names are sequences of          *)
(* one-character strings, so that suffix extraction, lower-casing and the  *)
(* code-point order of list.sort() are computed rather than assumed.       *)
(***************************************************************************)

\* Largest number of entries in the image directory.
MaxEntries == 3

NameBPng == <<"b", ".", "p", "n", "g">>

NameAJpg == <<"A", ".", "J", "P", "G">>

NameCTxt == <<"c", ".", "t", "x", "t">>

NameZJpeg == <<"Z", ".", "j", "p", "e", "g">>

NameTarGif == <<"a", ".", "t", ".", "G", "i", "f">>

NameDotPng == <<".", "p", "n", "g">>

NameBJp == <<"b", ".", "j", "p">>

NameTrailingDot == <<"b", ".", "p", "n", "g", ".">>

FileNames ==
    {NameBPng, NameAJpg, NameCTxt, NameZJpeg, NameTarGif, NameDotPng,
     NameBJp, NameTrailingDot}

\* What is_file() finds for an entry: a regular file, something else, or a
\* stat() failure that is_file() does not swallow (EACCES).
EntryKinds == {"file", "dir", "denied"}

ImageEntries == [name : FileNames, kind : EntryKinds]

\* image_dir: absent, present but not a directory, a listable directory,
\* or a directory whose iterdir() raises.
DirStates == {"missing", "notdir", "ok", "unreadable"}

ImageDir == "/app/image"

\* ord(ch) for the characters that occur in FileNames.
Ord(ch) ==
    CASE ch = "." -> 46
      [] ch = "A" -> 65
      [] ch = "G" -> 71
      [] ch = "J" -> 74
      [] ch = "P" -> 80
      [] ch = "Z" -> 90
      [] ch = "a" -> 97
      [] ch = "b" -> 98
      [] ch = "c" -> 99
      [] ch = "e" -> 101
      [] ch = "f" -> 102
      [] ch = "g" -> 103
      [] ch = "i" -> 105
      [] ch = "j" -> 106
      [] ch = "n" -> 110
      [] ch = "p" -> 112
      [] ch = "t" -> 116
      [] ch = "x" -> 120

\* chr(code) for the same characters.
Chr(code) == CHOOSE ch \in {".", "A", "G", "J", "P", "Z", "a", "b", "c", "e",
                            "f", "g", "i", "j", "n", "p", "t", "x"} :
                 Ord(ch) = code

\* str.lower(), one character at a time.
LowerChar(ch) == IF Ord(ch) >= 65 /\ Ord(ch) <= 90 THEN Chr(Ord(ch) + 32) ELSE ch

Lower(str) == [i \in 1..Len(str) |-> LowerChar(str[i])]

\* str.rfind('.') as a 1-based index, 0 when there is no dot.
RFindDot(name) ==
    LET dots == {i \in 1..Len(name) : name[i] = "."}
    IN IF dots = {} THEN 0 ELSE CHOOSE i \in dots : \A j \in dots : j <= i

\* Path.suffix: the last dot and what follows it, unless that dot is the
\* first or the last character of the name.
Suffix(name) ==
    LET i == RFindDot(name)
    IN IF 1 < i /\ i < Len(name) THEN SubSeq(name, i, Len(name)) ELSE <<>>

image_extensions ==
    {<<".", "g", "i", "f">>, <<".", "j", "p", "g">>,
     <<".", "j", "p", "e", "g">>, <<".", "p", "n", "g">>,
     <<".", "b", "m", "p">>, <<".", "w", "e", "b", "p">>}

RECURSIVE StrLess(_, _)
\* a < b on Python strings: code-point order, a proper prefix first.
StrLess(a, b) ==
    IF b = <<>> THEN FALSE
    ELSE IF a = <<>> THEN TRUE
    ELSE IF Ord(Head(a)) # Ord(Head(b)) THEN Ord(Head(a)) < Ord(Head(b))
    ELSE StrLess(Tail(a), Tail(b))

RECURSIVE InsertName(_, _)
InsertName(name, sorted) ==
    IF sorted = <<>> THEN <<name>>
    ELSE IF StrLess(name, Head(sorted)) THEN <<name>> \o sorted
    ELSE <<Head(sorted)>> \o InsertName(name, Tail(sorted))

\* The list as iterdir() produced it, left unsorted.
ListingOrder(names) == names

RECURSIVE SortNames(_)
\* image_files.sort()
SortNames(names) ==
    IF names = <<>> THEN <<>>
    ELSE InsertName(names[Len(names)],
                    SortNames(SubSeq(names, 1, Len(names) - 1)))

ImageError(msg) ==
    [files |-> <<>>, count |-> 0, error |-> msg, directory |-> ""]

RECURSIVE ImageScan(_, _)
\* The loop over iterdir(): the names kept so far, or the exception that
\* is_file() raised.
ImageScan(entries, acc) ==
    IF entries = <<>> THEN [raised |-> FALSE, files |-> acc]
    ELSE LET e == Head(entries)
         IN IF e.kind = "denied"
            THEN [raised |-> TRUE, files |-> <<>>]
            ELSE IF e.kind = "file" /\ Lower(Suffix(e.name)) \in image_extensions
            THEN ImageScan(Tail(entries), Append(acc, e.name))
            ELSE ImageScan(Tail(entries), acc)

get_image_files(q) ==
    IF q.dir = "unreadable" THEN ImageError("PermissionError")
    ELSE LET scan == IF q.dir = "ok" THEN ImageScan(q.entries, <<>>)
                     ELSE [raised |-> FALSE, files |-> <<>>]
         IN IF scan.raised THEN ImageError("PermissionError")
            ELSE LET image_files == SortNames(scan.files)
                 IN [files |-> image_files,
                     count |-> Len(image_files),
                     directory |-> ImageDir]

ImageInit ==
    /\ FnSupIdle
    /\ fpc = "get_image_files"
    /\ out = <<>>
    /\ \E d \in DirStates, k \in 0..MaxEntries :
         \E es \in [1..k -> ImageEntries] :
              /\ d # "ok" => k = 0
              /\ \A i, j \in 1..k : es[i].name = es[j].name => i = j
              /\ inp = [dir |-> d, entries |-> es]

ImageCall ==
    /\ fpc = "get_image_files"
    /\ out' = get_image_files(inp)
    /\ fpc' = "done"
    /\ UNCHANGED <<inp, supVars>>

ImageNext == ImageCall

SpecImage == ImageInit /\ [][ImageNext]_vars

\* A name has an image extension: its last dot is neither its first nor its
\* last character, and from that dot on it reads, ignoring case, as one of
\* the six extensions.
HasImageExtension(name) ==
    \E i \in 2..(Len(name) - 1) :
       /\ name[i] = "."
       /\ \A j \in (i + 1)..Len(name) : name[j] # "."
       /\ \E ext \in image_extensions :
             /\ Len(ext) = Len(name) - i + 1
             /\ \A j \in 1..Len(ext) :
                   ext[j] = name[i + j - 1] \/ Ord(ext[j]) = Ord(name[i + j - 1]) + 32

\* a comes strictly before b in lexicographic code-point order.
LexBefore(a, b) ==
    \E k \in 1..(Len(b)) :
       /\ \A j \in 1..(k - 1) : j <= Len(a) /\ a[j] = b[j]
       /\ k - 1 <= Len(a)
       /\ (k > Len(a) \/ Ord(a[k]) < Ord(b[k]))

ReadFails ==
    \/ inp.dir = "unreadable"
    \/ \E i \in 1..Len(inp.entries) : inp.entries[i].kind = "denied"

ImageNamesOf(entries) ==
    {entries[i].name : i \in {j \in 1..Len(entries) :
                                 /\ entries[j].kind = "file"
                                 /\ HasImageExtension(entries[j].name)}}

\* C11: get_image_files returns exactly the names of the regular files of
\* the image directory whose extension is, ignoring case, .gif, .jpg, .jpeg,
\* .png, .bmp or .webp, each once, in lexicographic order, with count the
\* length of files (b.png, A.JPG, c.txt gives [A.JPG, b.png] and 2); when
\* reading the directory fails it returns files = [], count = 0 and an
\* error string, and it never raises.
ImageListingExact ==
    fpc = "done" =>
      IF ReadFails
      THEN /\ out.files = <<>>
           /\ out.count = 0
           /\ "error" \in DOMAIN out
           /\ out.error \in STRING
      ELSE /\ {out.files[i] : i \in 1..Len(out.files)}
                = ImageNamesOf(inp.entries)
           /\ \A i, j \in 1..Len(out.files) :
                 i < j => LexBefore(out.files[i], out.files[j])
           /\ out.count = Len(out.files)
           /\ ({inp.entries[i] : i \in 1..Len(inp.entries)}
                 = {[name |-> NameBPng, kind |-> "file"],
                    [name |-> NameAJpg, kind |-> "file"],
                    [name |-> NameCTxt, kind |-> "file"]}
               => /\ out.files = <<NameAJpg, NameBPng>>
                  /\ out.count = 2)

\* The listing b.png, A.JPG, c.txt has been scanned and came back sorted.
ImageListingWitness ==
    /\ fpc = "done"
    /\ inp.dir = "ok"
    /\ inp.entries = <<[name |-> NameBPng, kind |-> "file"],
                       [name |-> NameAJpg, kind |-> "file"],
                       [name |-> NameCTxt, kind |-> "file"]>>
    /\ out.files = <<NameAJpg, NameBPng>>
    /\ out.count = 2

====
